---- MODULE Spec2Model ----
(***************************************************************************)
(* scripts/generate_sprint_report.py: the sprint-plan reporter.             *)
(*                                                                         *)
(* A text is a sequence of one-character strings.  parse_markdown is a     *)
(* single forward scan over the lines of the input; every iteration of its *)
(* for loop is one action, chosen by the branch of the if/elif chain the   *)
(* line takes.  generate_html_report is modelled by the sequence of HTML   *)
(* elements it concatenates.                                               *)
(***************************************************************************)
EXTENDS Integers, Sequences, FiniteSets, TLC

(***************************************************************************)
(* Bounds of the model.                                                    *)
(***************************************************************************)
MaxLines == 4

\* The largest number of lines of a document of the repeated runs.
MaxRunLines == 3

\* The largest number of pieces of the text after the colon of a task line.
MaxTokens == 2

\* The largest number of tasks of the microversion whose progress is shown.
MaxTasks == 16

(***************************************************************************)
(* Characters and texts.                                                   *)
(***************************************************************************)
\* The character U+2705 (white heavy check mark) of the task pattern.
CheckMark == "U+2705"

Digits == {"0","1","2","3","4","5","6","7","8","9"}

UpperLetters ==
  {"A","B","C","D","E","F","G","H","I","J","K","L","M",
   "N","O","P","Q","R","S","T","U","V","W","X","Y","Z"}

LowerLetters ==
  {"a","b","c","d","e","f","g","h","i","j","k","l","m",
   "n","o","p","q","r","s","t","u","v","w","x","y","z"}

\* str.strip() with no argument removes whitespace; the lines of the model
\* hold no whitespace character other than the blank and the tab.
Whitespace == {" ", "\t"}

Min(S) == CHOOSE x \in S : \A y \in S : x <= y

Max(S) == CHOOSE x \in S : \A y \in S : y <= x

\* s[pos..] starts with the literal p.
HasAt(s, pos, p) ==
  /\ pos >= 1
  /\ pos + Len(p) - 1 <= Len(s)
  /\ \A k \in 1..Len(p) : s[pos + k - 1] = p[k]

\* The first index >= pos of s that holds no character of set C
\* (Len(s) + 1 when there is none): where a greedy C* starting at pos ends.
SpanEnd(s, pos, C) ==
  Min({j \in pos..(Len(s) + 1) : j = Len(s) + 1 \/ s[j] \notin C})

\* str.strip()
Strip(s) ==
  LET keep == {k \in 1..Len(s) : s[k] \notin Whitespace}
  IN  IF keep = {} THEN <<>>
      ELSE SubSeq(s, Min(keep), Max(keep))

(***************************************************************************)
(* The four line patterns of parse_markdown.  Each XxxMatch(line) says     *)
(* whether re.match succeeds, each XxxGroupN(line) is group N of the match. *)
(***************************************************************************)
PrefixEpic ==
  <<"#","#"," ","E","p","i","c"," ">>

\* ^## (Epic \d+:.*)$
EpicMatch(line) ==
  /\ HasAt(line, 1, PrefixEpic)
  /\ LET d == Len(PrefixEpic) + 1
         e == SpanEnd(line, d, Digits)
     IN  e > d /\ e <= Len(line) /\ line[e] = ":"

EpicGroup1(line) == SubSeq(line, 4, Len(line))

PrefixSprint ==
  <<"#","#","#"," ","*","*","S","p","r","i","n","t"," ">>

\* The text between "### **" and the closing "**" or "**:" that ends the line.
SprintBody(line) ==
  LET n == Len(line)
      last == IF n >= 1 /\ line[n] = ":" THEN n - 1 ELSE n
  IN  SubSeq(line, 7, last - 2)

\* ^### \*\*(Sprint \d+:.*?)(?:\(.*?\))?\*\*[:]?$
SprintMatch(line) ==
  /\ HasAt(line, 1, PrefixSprint)
  /\ LET n == Len(line)
         last == IF line[n] = ":" THEN n - 1 ELSE n
         d == Len(PrefixSprint) + 1
         e == SpanEnd(line, d, Digits)
     IN  /\ e > d /\ e <= n /\ line[e] = ":"
         \* the closing ** lies after "Sprint <digits>:"
         /\ last - 1 > e
         /\ HasAt(line, last - 1, <<"*","*">>)

\* Group 1 is lazy: the shortest text after which an optional parenthesised
\* clause reaches the closing **.
SprintGroup1(line) ==
  LET b == SprintBody(line)
      hdr == SpanEnd(b, 8, Digits)     \* index in b of the ":" after the digits
      ends == {k \in hdr..Len(b) :
                 \/ k = Len(b)
                 \/ /\ Len(b) - k >= 2
                    /\ b[k + 1] = "("
                    /\ b[Len(b)] = ")"}
  IN  SubSeq(b, 1, Min(ends))

PrefixMv ==
  <<"#","#","#","#","#"," ","*","*","v">>

\* Where \d+\.\d+\.\d+\.\d+[a-z]? starting at index pos of s ends (the index
\* after it), or 0 when it does not match there.
VersionEnd(s, pos) ==
  LET e1 == SpanEnd(s, pos, Digits)
      e2 == SpanEnd(s, e1 + 1, Digits)
      e3 == SpanEnd(s, e2 + 1, Digits)
      e4 == SpanEnd(s, e3 + 1, Digits)
  IN  IF /\ e1 > pos /\ HasAt(s, e1, <<".">>)
         /\ e2 > e1 + 1 /\ HasAt(s, e2, <<".">>)
         /\ e3 > e2 + 1 /\ HasAt(s, e3, <<".">>)
         /\ e4 > e3 + 1
      THEN IF e4 <= Len(s) /\ s[e4] \in LowerLetters THEN e4 + 1 ELSE e4
      ELSE 0

\* The indices k >= pos of s at which "**" starts.
StarStarFrom(s, pos) == {k \in pos..Len(s) : HasAt(s, k, <<"*","*">>)}

\* ^##### \*\*v(\d+\.\d+\.\d+\.\d+[a-z]?) - (.*?)\*\*.*$
MicroversionMatch(line) ==
  /\ HasAt(line, 1, PrefixMv)
  /\ LET v == VersionEnd(line, Len(PrefixMv) + 1)
     IN  /\ v > 0
         /\ HasAt(line, v, <<" ","-"," ">>)
         /\ StarStarFrom(line, v + 3) # {}

MicroversionGroup1(line) ==
  SubSeq(line, Len(PrefixMv) + 1, VersionEnd(line, Len(PrefixMv) + 1) - 1)

\* Group 2 is lazy: it ends before the first "**" after " - ".
MicroversionGroup2(line) ==
  LET v == VersionEnd(line, Len(PrefixMv) + 1)
  IN  SubSeq(line, v + 3, Min(StarStarFrom(line, v + 3)) - 1)

\* The metadata markers that end a task's description.
Markers ==
  { <<" ","-"," ","*","*","E","f","f","o","r","t">>,
    <<"[","E","f","f","o","r","t">>,
    <<"(","E","f","f","o","r","t">>,
    <<"D","e","p","e","n","d","e","n","c","i","e","s">>,
    <<"A","s","s","i","g","n","e","e">>,
    <<"G","r","a","n","u","l","a","r"," ","S","t","e","p","s">>,
    <<"C","o","m","p","l","e","t","i","o","n"," ","N","o","t","e","s">> }

CheckboxChars == {"x", " ", CheckMark}

\* Where a greedy (?:\.\d+)* starting at index pos of s ends: the last index e
\* such that s[pos..e-1] holds only dots and digits, is empty or starts with a
\* dot, and has a digit after each of its dots.
DotGroupsEnd(s, pos) ==
  Max({e \in pos..(Len(s) + 1) :
         /\ \A k \in pos..(e - 1) : s[k] \in Digits \cup {"."}
         /\ e > pos => s[pos] = "."
         /\ \A k \in pos..(e - 1) : s[k] = "." => (k + 1 < e /\ s[k + 1] \in Digits)})

\* Where [A-Z]+\d+(?:\.\d+)* starting at index pos of s ends (the index after
\* it) when "**: " follows it, or 0 when the pattern does not match there.
TaskIdEnd(s, pos) ==
  LET u == SpanEnd(s, pos, UpperLetters)
      d == SpanEnd(s, u, Digits)
      e == DotGroupsEnd(s, d)
  IN  IF u > pos /\ d > u /\ HasAt(s, e, <<"*","*",":"," ">>) THEN e ELSE 0

\* ^- \[(x| |U+2705)\] \*\*([A-Z]+\d+(?:\.\d+)*)\*\*: (.*?)(?: - \*\*Effort|...|$)
TaskMatch(line) ==
  /\ HasAt(line, 1, <<"-"," ","[">>)
  /\ Len(line) >= 4
  /\ line[4] \in CheckboxChars
  /\ HasAt(line, 5, <<"]"," ","*","*">>)
  /\ TaskIdEnd(line, 9) > 0

TaskGroup1(line) == line[4]

TaskGroup2(line) == SubSeq(line, 9, TaskIdEnd(line, 9) - 1)

\* A variant with a greedy group 3, which runs to the end of the line.
TaskGroup3Greedy(line) ==
  SubSeq(line, TaskIdEnd(line, 9) + 4, Len(line))

\* Group 3 is lazy: it ends before the first index at which a marker
\* starts, or at the end of the line.
TaskGroup3(line) ==
  LET from == TaskIdEnd(line, 9) + 4
      stops == {k \in from..(Len(line) + 1) :
                  \/ k = Len(line) + 1
                  \/ \E m \in Markers : HasAt(line, k, m)}
  IN  SubSeq(line, from, Min(stops) - 1)

(***************************************************************************)
(* The documents of the model: every sequence of at most MaxLines lines    *)
(* drawn from the sample lines below, the example document, documents with *)
(* up to MaxTasks tasks in a microversion, and documents with a task line  *)
(* whose text is made of metadata markers.                                 *)
(***************************************************************************)
LineEpic ==
  <<"#","#"," ","E","p","i","c"," ","1",":"," ","F","o","o">>

LineSprint ==
  <<"#","#","#"," ","*","*","S","p","r","i","n","t"," ","1",":"," ","B","a",
    "r","*","*">>

LineMicroversion ==
  <<"#","#","#","#","#"," ","*","*","v","0",".","1",".","0",".","0"," ","-",
    " ","S","e","t","u","p","*","*">>

LineTaskX ==
  <<"-"," ","[","x","]"," ","*","*","T","1",".","1","*","*",":"," ","D","o",
    " ","t","h","i","n","g"," ","-"," ","*","*","E","f","f","o","r","t","*",
    "*",":"," ","2","h">>

LineTaskOpen ==
  <<"-"," ","["," ","]"," ","*","*","T","1",".","2","*","*",":"," ","D","o",
    " ","o","t","h","e","r"," ","t","h","i","n","g">>

LineTaskCheck ==
  <<"-"," ","[",CheckMark,"]"," ","*","*","T","2","*","*",":"," ","F","i",
    "x"," ","(","E","f","f","o","r","t",":"," ","1","h",")">>

\* A line that matches none of the patterns (the checkbox holds a capital X).
LineOther ==
  <<"-"," ","[","X","]"," ","*","*","T","3","*","*",":"," ","N","o","t","e">>

SampleLines ==
  {LineEpic, LineSprint, LineMicroversion, LineTaskX, LineTaskOpen,
   LineTaskCheck, LineOther}

\* The five-line document of the specification's example.
ExampleDocument ==
  <<LineEpic, LineSprint, LineMicroversion, LineTaskX, LineTaskOpen>>

\* n copies of a line.
Repeat(line, n) == [k \in 1..n |-> line]

\* An epic, then a sprint with three microversions: the first holds no task,
\* the second a checked and an unchecked task, the third `total` tasks of
\* which `completed` are checked.
ProgressDocument(completed, total) ==
  <<LineEpic, LineSprint, LineMicroversion, LineMicroversion, LineTaskX,
    LineTaskOpen, LineMicroversion>>
    \o Repeat(LineTaskX, completed) \o Repeat(LineTaskOpen, total - completed)

ProgressDocuments ==
  UNION {{ProgressDocument(completed, total) : completed \in 0..total} :
           total \in 0..MaxTasks}

\* Task lines whose text after "**: " is made of at most MaxTokens pieces:
\* a letter, a blank, the metadata markers, and "- **Effort" without the
\* blank before it.
MarkerTokens ==
  Markers \cup {<<"a">>, <<" ">>,
                <<"-"," ","*","*","E","f","f","o","r","t">>}

RECURSIVE Flatten(_)
Flatten(pieces) ==
  IF pieces = <<>> THEN <<>> ELSE Head(pieces) \o Flatten(Tail(pieces))

MarkerLines ==
  {<<"-"," ","["," ","]"," ","*","*","T","1","*","*",":"," ">>
     \o Flatten(pieces) :
     pieces \in UNION {[1..n -> MarkerTokens] : n \in 0..MaxTokens}}

\* A sprint with a microversion and one such task line.
MarkerDocuments ==
  {<<LineSprint, LineMicroversion, line>> : line \in MarkerLines}

ModelLines == SampleLines \cup MarkerLines

Documents ==
  UNION {[1..n -> SampleLines] : n \in 0..MaxLines}
    \cup {ExampleDocument} \cup ProgressDocuments \cup MarkerDocuments

\* The documents of the runs in which the program is started several times.
RunDocuments ==
  UNION {[1..n -> SampleLines] : n \in 0..MaxRunLines}
    \cup {ExampleDocument} \cup ProgressDocuments

(***************************************************************************)
(* State.                                                                  *)
(***************************************************************************)
VARIABLES
  input_file,            \* the markdown file: None, or its lines
  output_file,           \* the HTML file: None, or its content
  stdout,                \* the messages printed
  pc,                    \* the statement the program is at
  lines,                 \* md_content.splitlines(), a sequence of lines
  i,                     \* the number of lines the for loop has consumed
  sprints,               \* parse_markdown: the result list
  current_sprint,        \* parse_markdown: the open Sprint/Epic record, or None
  current_microversion,  \* parse_markdown: the open Microversion, or None
  html_content,          \* generate_html_report: the elements emitted
  now                    \* the clock that datetime.now() reads, in ticks

vars == <<input_file, output_file, stdout, pc, lines, i, sprints,
          current_sprint, current_microversion, html_content, now>>

\* The files and the output, which parse_markdown never touches.
io == <<input_file, output_file, stdout>>

\* Python's None and a reference to an object: a sequence of length <= 1.
None == <<>>

Ref(obj) == <<obj>>

\* Truth value of "if x:" for x that is None or a dict with keys (never empty).
Truthy(x) == x # None

(***************************************************************************)
(* parse_markdown                                                          *)
(***************************************************************************)
\* The four re.match calls at the top of the loop body: each gives None or
\* the groups of the match.
epic_match(line) ==
  IF EpicMatch(line) THEN Ref(<<EpicGroup1(line)>>) ELSE None

sprint_match(line) ==
  IF SprintMatch(line) THEN Ref(<<SprintGroup1(line)>>) ELSE None

microversion_match(line) ==
  IF MicroversionMatch(line)
  THEN Ref(<<MicroversionGroup1(line), MicroversionGroup2(line)>>)
  ELSE None

task_match(line) ==
  IF TaskMatch(line)
  THEN Ref(<<TaskGroup1(line), TaskGroup2(line), TaskGroup3(line)>>)
  ELSE None

\* The four match results of every line of the model; the table is
\* computed once (@@ makes it a table of values).
MatchTable ==
  [line \in ModelLines |->
     [epic |-> epic_match(line),
      sprint |-> sprint_match(line),
      microversion |-> microversion_match(line),
      task |-> task_match(line)]] @@ <<>>

LineMatches(line) == MatchTable[line]

\* {"title": ..., "microversions": []}
NewSprint(title) == [title |-> title, microversions |-> <<>>]

\* {"title": f"v{group(1)} - {group(2).strip()}", "tasks": []}
NewMicroversion(groups) ==
  [title |-> <<"v">> \o groups[1] \o <<" ","-"," ">> \o Strip(groups[2]),
   tasks |-> <<>>]

\* A variant that takes only 'x' for a checked box.
TaskStatusOnlyX(status_char) ==
  IF status_char = "x" THEN "Complete" ELSE "Open"

\* "Complete" if status_char == 'x' or status_char == U+2705 else "Open"
TaskStatus(status_char) ==
  IF status_char = "x" \/ status_char = CheckMark THEN "Complete" ELSE "Open"

\* {"id": task_id, "description": description, "status": status}
NewTask(groups) ==
  [id |-> groups[2],
   description |-> Strip(groups[3]),
   status |-> TaskStatus(groups[1])]

\* A variant that keeps a record out of the result while it has no
\* microversions, as if an Epic were only a title for the Sprints after it.
AppendOpenSprintSkipsEmpty(result, sprint) ==
  IF Truthy(sprint) /\ sprint[1].microversions # <<>>
  THEN Append(result, sprint[1])
  ELSE result

\* if current_sprint: sprints.append(current_sprint)
AppendOpenSprint(result, sprint) ==
  IF Truthy(sprint) THEN Append(result, sprint[1]) ELSE result

\* if current_microversion: current_sprint["microversions"].append(current_microversion)
AppendOpenMicroversion(sprint, microversion) ==
  IF Truthy(microversion)
  THEN [sprint EXCEPT !.microversions = Append(@, microversion[1])]
  ELSE sprint

\* current_microversion["tasks"].append(task)
AppendTask(microversion, task) ==
  [microversion EXCEPT !.tasks = Append(@, task)]

\* The matches of the line the for loop is about to process.
Current == LineMatches(lines[i + 1])

InLoop == pc = "parse" /\ i < Len(lines)

\* A variant of the Epic branch that closes the open record and opens
\* none, as if an Epic were only a title.
EpicHeaderOpensNothing ==
  /\ InLoop
  /\ Truthy(Current.epic)
  /\ sprints' = AppendOpenSprint(sprints, current_sprint)
  /\ current_sprint' = None
  /\ current_microversion' = None
  /\ i' = i + 1
  /\ UNCHANGED <<io, pc, lines, html_content, now>>

\* if epic_match:
EpicHeader ==
  /\ InLoop
  /\ Truthy(Current.epic)
  /\ sprints' = AppendOpenSprint(sprints, current_sprint)
  /\ current_sprint' = Ref(NewSprint(Strip(Current.epic[1][1])))
  /\ current_microversion' = None
  /\ i' = i + 1
  /\ UNCHANGED <<io, pc, lines, html_content, now>>

\* A variant of the Sprint branch that leaves the open microversion open.
SprintHeaderKeepsMicroversion ==
  /\ InLoop
  /\ ~Truthy(Current.epic)
  /\ Truthy(Current.sprint)
  /\ sprints' = AppendOpenSprint(sprints, current_sprint)
  /\ current_sprint' = Ref(NewSprint(Strip(Current.sprint[1][1])))
  /\ i' = i + 1
  /\ UNCHANGED <<io, pc, lines, current_microversion, html_content, now>>

\* elif sprint_match:
SprintHeader ==
  /\ InLoop
  /\ ~Truthy(Current.epic)
  /\ Truthy(Current.sprint)
  /\ sprints' = AppendOpenSprint(sprints, current_sprint)
  /\ current_sprint' = Ref(NewSprint(Strip(Current.sprint[1][1])))
  /\ current_microversion' = None
  /\ i' = i + 1
  /\ UNCHANGED <<io, pc, lines, html_content, now>>

\* A variant of the Microversion branch that goes on filling the list of
\* the microversion that was open: the new one starts with its tasks.
MicroversionHeaderKeepsTasks ==
  /\ InLoop
  /\ ~Truthy(Current.epic)
  /\ ~Truthy(Current.sprint)
  /\ Truthy(Current.microversion) /\ Truthy(current_sprint)
  /\ current_sprint' =
       Ref(AppendOpenMicroversion(current_sprint[1], current_microversion))
  /\ current_microversion' =
       Ref([NewMicroversion(Current.microversion[1]) EXCEPT
              !.tasks = IF Truthy(current_microversion)
                        THEN current_microversion[1].tasks ELSE <<>>])
  /\ i' = i + 1
  /\ UNCHANGED <<io, pc, lines, sprints, html_content, now>>

\* elif microversion_match and current_sprint:
MicroversionHeader ==
  /\ InLoop
  /\ ~Truthy(Current.epic)
  /\ ~Truthy(Current.sprint)
  /\ Truthy(Current.microversion) /\ Truthy(current_sprint)
  /\ current_sprint' =
       Ref(AppendOpenMicroversion(current_sprint[1], current_microversion))
  /\ current_microversion' = Ref(NewMicroversion(Current.microversion[1]))
  /\ i' = i + 1
  /\ UNCHANGED <<io, pc, lines, sprints, html_content, now>>

\* A variant in which every microversion of the open sprint holds the same
\* task list object as the open microversion, so that an append reaches the
\* microversions already attached to the sprint.
TaskLineSharedTaskList ==
  /\ InLoop
  /\ ~Truthy(Current.epic)
  /\ ~Truthy(Current.sprint)
  /\ ~(Truthy(Current.microversion) /\ Truthy(current_sprint))
  /\ Truthy(Current.task) /\ Truthy(current_microversion)
  /\ current_microversion' =
       Ref(AppendTask(current_microversion[1], NewTask(Current.task[1])))
  /\ current_sprint' =
       IF Truthy(current_sprint)
       THEN Ref([current_sprint[1] EXCEPT !.microversions =
                  [k \in DOMAIN @ |->
                     AppendTask(@[k], NewTask(Current.task[1]))]])
       ELSE current_sprint
  /\ i' = i + 1
  /\ UNCHANGED <<io, pc, lines, sprints, html_content, now>>

\* elif task_match and current_microversion:
TaskLine ==
  /\ InLoop
  /\ ~Truthy(Current.epic)
  /\ ~Truthy(Current.sprint)
  /\ ~(Truthy(Current.microversion) /\ Truthy(current_sprint))
  /\ Truthy(Current.task) /\ Truthy(current_microversion)
  /\ current_microversion' =
       Ref(AppendTask(current_microversion[1], NewTask(Current.task[1])))
  /\ i' = i + 1
  /\ UNCHANGED <<io, pc, lines, sprints, current_sprint, html_content, now>>

\* A variant that keeps a task line met while no microversion is open: it
\* opens a microversion without a title for it under the open sprint.
SkipLineAdoptsOrphanTask ==
  /\ InLoop
  /\ ~Truthy(Current.epic)
  /\ ~Truthy(Current.sprint)
  /\ ~(Truthy(Current.microversion) /\ Truthy(current_sprint))
  /\ ~(Truthy(Current.task) /\ Truthy(current_microversion))
  /\ current_microversion' =
       IF Truthy(Current.task) /\ Truthy(current_sprint)
       THEN Ref([title |-> <<>>, tasks |-> <<NewTask(Current.task[1])>>])
       ELSE current_microversion
  /\ i' = i + 1
  /\ UNCHANGED <<io, pc, lines, sprints, current_sprint, html_content, now>>

\* A variant that opens a microversion although no sprint is open.
SkipLineOpensOrphanMicroversion ==
  /\ InLoop
  /\ ~Truthy(Current.epic)
  /\ ~Truthy(Current.sprint)
  /\ ~(Truthy(Current.microversion) /\ Truthy(current_sprint))
  /\ ~(Truthy(Current.task) /\ Truthy(current_microversion))
  /\ current_microversion' =
       IF Truthy(Current.microversion)
       THEN Ref(NewMicroversion(Current.microversion[1]))
       ELSE current_microversion
  /\ i' = i + 1
  /\ UNCHANGED <<io, pc, lines, sprints, current_sprint, html_content, now>>

\* A variant with a final else branch that forgets the open microversion.
SkipLineResetsMicroversion ==
  /\ InLoop
  /\ ~Truthy(Current.epic)
  /\ ~Truthy(Current.sprint)
  /\ ~(Truthy(Current.microversion) /\ Truthy(current_sprint))
  /\ ~(Truthy(Current.task) /\ Truthy(current_microversion))
  /\ current_microversion' = None
  /\ i' = i + 1
  /\ UNCHANGED <<io, pc, lines, sprints, current_sprint, html_content, now>>

\* A variant that keeps a task line met under a record while no
\* microversion is open as a task of the record itself.
SkipLineKeepsDirectTask ==
  /\ InLoop
  /\ ~Truthy(Current.epic)
  /\ ~Truthy(Current.sprint)
  /\ ~(Truthy(Current.microversion) /\ Truthy(current_sprint))
  /\ ~(Truthy(Current.task) /\ Truthy(current_microversion))
  /\ current_sprint' =
       IF Truthy(Current.task) /\ Truthy(current_sprint)
       THEN Ref([title |-> current_sprint[1].title,
                 microversions |-> current_sprint[1].microversions,
                 tasks |-> (IF "tasks" \in DOMAIN current_sprint[1]
                            THEN current_sprint[1].tasks ELSE <<>>)
                             \o <<NewTask(Current.task[1])>>])
       ELSE current_sprint
  /\ i' = i + 1
  /\ UNCHANGED <<io, pc, lines, sprints, current_microversion, html_content,
                 now>>

\* A variant that opens a record without a title for a microversion line
\* met while no record is open, and the microversion under it.
SkipLineOpensUntitledSprint ==
  /\ InLoop
  /\ ~Truthy(Current.epic)
  /\ ~Truthy(Current.sprint)
  /\ ~(Truthy(Current.microversion) /\ Truthy(current_sprint))
  /\ ~(Truthy(Current.task) /\ Truthy(current_microversion))
  /\ current_sprint' =
       IF Truthy(Current.microversion)
       THEN Ref(NewSprint(<<>>))
       ELSE current_sprint
  /\ current_microversion' =
       IF Truthy(Current.microversion)
       THEN Ref(NewMicroversion(Current.microversion[1]))
       ELSE current_microversion
  /\ i' = i + 1
  /\ UNCHANGED <<io, pc, lines, sprints, html_content, now>>

\* A variant in which the loop stays on a line that no branch takes.
SkipLineStays ==
  /\ InLoop
  /\ ~Truthy(Current.epic)
  /\ ~Truthy(Current.sprint)
  /\ ~(Truthy(Current.microversion) /\ Truthy(current_sprint))
  /\ ~(Truthy(Current.task) /\ Truthy(current_microversion))
  /\ UNCHANGED vars

\* No branch of the if/elif chain is taken: the loop goes to the next line.
SkipLine ==
  /\ InLoop
  /\ ~Truthy(Current.epic)
  /\ ~Truthy(Current.sprint)
  /\ ~(Truthy(Current.microversion) /\ Truthy(current_sprint))
  /\ ~(Truthy(Current.task) /\ Truthy(current_microversion))
  /\ i' = i + 1
  /\ UNCHANGED <<io, pc, lines, sprints, current_sprint, current_microversion,
                 html_content, now>>

\* A variant without the first if of the finalisation: the open
\* microversion is not appended.
FinalSprintsDropsOpenMicroversion(result, sprint, microversion) ==
  IF Truthy(sprint) THEN Append(result, sprint[1]) ELSE result

\* The value parse_markdown returns after the loop:
\*   if current_microversion and current_sprint: append the microversion
\*   if current_sprint: sprints.append(current_sprint)
FinalSprints(result, sprint, microversion) ==
  IF Truthy(sprint)
  THEN Append(result, AppendOpenMicroversion(sprint[1], microversion))
  ELSE result

\* End of input: the finalisation and the return of parse_markdown.
Finalize ==
  /\ pc = "parse"
  /\ i = Len(lines)
  /\ sprints' = FinalSprints(sprints, current_sprint, current_microversion)
  /\ current_sprint' =
       IF Truthy(current_sprint)
       THEN Ref(AppendOpenMicroversion(current_sprint[1], current_microversion))
       ELSE None
  /\ pc' = "render"
  /\ UNCHANGED <<io, lines, i, current_microversion, html_content, now>>

(***************************************************************************)
(* generate_html_report                                                    *)
(***************************************************************************)
DigitChar(d) ==
  CASE d = 0 -> "0" [] d = 1 -> "1" [] d = 2 -> "2" [] d = 3 -> "3"
    [] d = 4 -> "4" [] d = 5 -> "5" [] d = 6 -> "6" [] d = 7 -> "7"
    [] d = 8 -> "8" [] d = 9 -> "9"

\* The decimal text of a natural number, as an f-string formats an int.
RECURSIVE FormatInt(_)
FormatInt(n) ==
  IF n < 10 THEN <<DigitChar(n)>>
  ELSE FormatInt(n \div 10) \o <<DigitChar(n % 10)>>

\* A variant that cuts the digits after the first decimal off.
RoundDown(num, den) == num \div den

\* A variant that rounds every remainder up.
RoundUp(num, den) == (num + den - 1) \div den

\* num/den rounded to the nearest integer, ties to the even one: the rounding
\* of the format specification ".1f" applied to the value in tenths.  The
\* format rounds the float that holds the percentage; a tie between two
\* tenths is decided as here where the float holds it exactly, as it does
\* for every total of the documents of this module that has a tie.
RoundHalfEven(num, den) ==
  LET q == num \div den
      r == num % den
  IN  IF 2 * r > den \/ (2 * r = den /\ q % 2 = 1) THEN q + 1 ELSE q

\* The value of (completed / total * 100) if total > 0 else 0, in tenths of a
\* percent as ":.1f" shows it.
ProgressTenths(completed, total) ==
  IF total > 0 THEN RoundHalfEven(completed * 1000, total) ELSE 0

\* f"{completed}/{total} ({progress:.1f}%)"
ProgressText(completed, total) ==
  LET t == ProgressTenths(completed, total)
  IN  FormatInt(completed) \o <<"/">> \o FormatInt(total) \o <<" ","(">>
        \o FormatInt(t \div 10) \o <<".">> \o <<DigitChar(t % 10)>>
        \o <<"%",")">>

\* One piece of the HTML text: its element, its class attribute, the task
\* identifier it shows and its text.  The style attribute of a progress bar
\* (the unrounded percentage as a width) is not represented.
Element(tag, class, id, text) ==
  [tag |-> tag, class |-> class, id |-> id, text |-> text]

\* sum(1 for task in tasks if task['status'] == 'Complete')
CompletedCount(tasks) ==
  Cardinality({k \in 1..Len(tasks) : tasks[k].status = "Complete"})

\* 'task-complete' if task['status'] == 'Complete' else 'task-open'
StatusClass(task) ==
  IF task.status = "Complete" THEN "task-complete" ELSE "task-open"

\* <li class="{status_class}"><strong>{task['id']}</strong>: {task['description']}</li>
TaskItems(tasks) ==
  [k \in 1..Len(tasks) |->
     Element("li", StatusClass(tasks[k]), tasks[k].id, tasks[k].description)]

\* A variant without the else branch: a list is emitted for every
\* microversion, an empty one included.
TaskListHtmlWithoutNotice(tasks) ==
  <<Element("ul", "", <<>>, <<>>)>> \o TaskItems(tasks)
    \o <<Element("/ul", "", <<>>, <<>>)>>

\* The task list of a microversion, or the notice that it has none.
TaskListHtml(tasks) ==
  IF tasks # <<>>
  THEN <<Element("ul", "", <<>>, <<>>)>> \o TaskItems(tasks)
         \o <<Element("/ul", "", <<>>, <<>>)>>
  ELSE <<Element("p", "no-tasks", <<>>, <<>>)>>

\* The body of "for mv in sprint['microversions']" for one microversion.
MicroversionHtml(mv) ==
  <<Element("h3", "microversion", <<>>, mv.title),
    Element("div", "progress-bar",
            <<>>, ProgressText(CompletedCount(mv.tasks), Len(mv.tasks)))>>
    \o TaskListHtml(mv.tasks)
    \o <<Element("/div", "microversion", <<>>, <<>>)>>

RECURSIVE MicroversionsHtml(_)
MicroversionsHtml(mvs) ==
  IF mvs = <<>> THEN <<>>
  ELSE MicroversionHtml(Head(mvs)) \o MicroversionsHtml(Tail(mvs))

\* sprint.get("tasks"): the tasks held directly by a record, None without
\* the key.
DirectTasks(sprint) ==
  IF "tasks" \in DOMAIN sprint THEN sprint.tasks ELSE <<>>

\* The block "if sprint.get('tasks'):" of a sprint.
DirectTasksHtml(sprint) ==
  IF DirectTasks(sprint) # <<>>
  THEN <<Element("ul", "direct", <<>>, <<>>)>> \o TaskItems(DirectTasks(sprint))
         \o <<Element("/ul", "direct", <<>>, <<>>)>>
  ELSE <<>>

\* A variant that starts the count again at every microversion.
SumTotalOfLast(mvs) ==
  IF mvs = <<>> THEN 0 ELSE Len(mvs[Len(mvs)].tasks)

\* total_sprint_tasks after the loop over the microversions.
RECURSIVE SumTotal(_)
SumTotal(mvs) ==
  IF mvs = <<>> THEN 0 ELSE Len(Head(mvs).tasks) + SumTotal(Tail(mvs))

TotalSprintTasks(sprint) ==
  Len(DirectTasks(sprint)) + SumTotal(sprint.microversions)

\* completed_sprint_tasks after the loop over the microversions.
RECURSIVE SumCompleted(_)
SumCompleted(mvs) ==
  IF mvs = <<>> THEN 0
  ELSE CompletedCount(Head(mvs).tasks) + SumCompleted(Tail(mvs))

CompletedSprintTasks(sprint) ==
  CompletedCount(DirectTasks(sprint)) + SumCompleted(sprint.microversions)

\* if total_sprint_tasks > 0: the sprint summary
SprintSummaryHtml(sprint) ==
  IF TotalSprintTasks(sprint) > 0
  THEN <<Element("div", "sprint-summary", <<>>,
                 ProgressText(CompletedSprintTasks(sprint),
                              TotalSprintTasks(sprint)))>>
  ELSE <<>>

\* A variant in which the if block that opens the body goes on to the next
\* record (continue) for a record without microversions and direct tasks.
SprintHtmlSkipsEmpty(sprint) ==
  IF sprint.microversions = <<>> /\ DirectTasks(sprint) = <<>>
  THEN <<>>
  ELSE <<Element("section", "sprint", <<>>, sprint.title)>>
         \o DirectTasksHtml(sprint)
         \o MicroversionsHtml(sprint.microversions)
         \o SprintSummaryHtml(sprint)
         \o <<Element("/section", "sprint", <<>>, <<>>)>>

\* The body of "for sprint in sprints" for one record.  The if block that
\* opens the body ends in pass and emits nothing.
SprintHtml(sprint) ==
  <<Element("section", "sprint", <<>>, sprint.title)>>
    \o DirectTasksHtml(sprint)
    \o MicroversionsHtml(sprint.microversions)
    \o SprintSummaryHtml(sprint)
    \o <<Element("/section", "sprint", <<>>, <<>>)>>

RECURSIVE SprintsHtml(_)
SprintsHtml(model) ==
  IF model = <<>> THEN <<>>
  ELSE SprintHtml(Head(model)) \o SprintsHtml(Tail(model))

\* The paths of the __main__ block, as sequences of path components:
\* the script is in the directory scripts of the workspace root.
workspace_root == <<"adventure-jumper">>

script_dir == workspace_root \o <<"scripts">>

output_html_path ==
  workspace_root
    \o <<"docs", "04_Project_Management", "sprint_status_report.html">>

css_file_path == script_dir \o <<"report_style.css">>

\* os.path.dirname
DirName(path) == SubSeq(path, 1, Len(path) - 1)

\* os.path.relpath(path, start) for absolute paths: one ".." for every
\* component of start below the common prefix, then the rest of path.
RelPath(path, start) ==
  LET common ==
        Max({k \in 0..Min({Len(path), Len(start)}) :
               SubSeq(path, 1, k) = SubSeq(start, 1, k)})
  IN  Repeat("..", Len(start) - common)
        \o SubSeq(path, common + 1, Len(path))

\* The clock ticks this many times in a second.
TicksPerSecond == 2

\* datetime.now().strftime('%Y-%m-%d %H:%M:%S'): the time of the clock with
\* the fraction of the second cut off.
Timestamp(clock) == FormatInt(clock \div TicksPerSecond)

\* The text generate_html_report assembles: the head of the page with the
\* link to the stylesheet and the "Generated on" paragraph, the sections,
\* the footer.
HtmlReport(model, output_path, css_path, clock) ==
  <<Element("link", "stylesheet", <<>>,
            RelPath(css_path, DirName(output_path))),
    Element("header", "", <<>>, <<>>),
    Element("p", "generated-on", <<>>, Timestamp(clock))>>
    \o SprintsHtml(model)
    \o <<Element("footer", "", <<>>, <<>>)>>

\* A variant that goes on from the text of the previous call.
RenderAppends ==
  /\ pc = "render"
  /\ html_content' =
       html_content
         \o HtmlReport(sprints, output_html_path, css_file_path, now)
  /\ pc' = "write"
  /\ UNCHANGED <<io, lines, i, sprints, current_sprint, current_microversion,
                 now>>

\* A variant in which the message is printed right after the HTML is
\* assembled, before the file is written.
RenderThenMessage ==
  /\ pc = "render"
  /\ html_content' =
       HtmlReport(sprints, output_html_path, css_file_path, now)
  /\ pc' = "print"
  /\ UNCHANGED <<io, lines, i, sprints, current_sprint, current_microversion,
                 now>>

\* A variant that opens the output file for writing before it assembles the
\* text: the file is empty while the text is assembled.
RenderOpensFirst ==
  /\ pc = "render"
  /\ html_content' =
       HtmlReport(sprints, output_html_path, css_file_path, now)
  /\ output_file' = Ref(<<>>)
  /\ pc' = "write"
  /\ UNCHANGED <<input_file, stdout, lines, i, sprints, current_sprint,
                 current_microversion, now>>

\* generate_html_report(sprints_data, output_html_path, css_file_path):
\* html_content is assembled.
Render ==
  /\ pc = "render"
  /\ html_content' =
       HtmlReport(sprints, output_html_path, css_file_path, now)
  /\ pc' = "write"
  /\ UNCHANGED <<io, lines, i, sprints, current_sprint, current_microversion,
                 now>>

\* An error raised while lines 60-153 assemble html_content (no memory
\* left, an interrupt, a record without one of its keys): nothing catches
\* it, the with statement of line 154 is not reached, and the local
\* html_content is lost with the call.
RenderFails ==
  /\ pc = "render"
  /\ html_content' = <<>>
  /\ pc' = "raised"
  /\ UNCHANGED <<io, lines, i, sprints, current_sprint, current_microversion,
                 now>>

(***************************************************************************)
(* The program (the __main__ block).                                       *)
(***************************************************************************)
\* with open(output_path, 'w', encoding='utf-8') as f: f.write(html_content)
WriteOutput ==
  /\ pc = "write"
  /\ output_file' = Ref(html_content)
  /\ pc' = "print"
  /\ UNCHANGED <<input_file, stdout, lines, i, sprints, current_sprint,
                 current_microversion, html_content, now>>

\* A variant in which the error is caught and the function goes on.
OpenFailsIsCaught ==
  /\ pc = "write"
  /\ pc' = "print"
  /\ UNCHANGED <<io, lines, i, sprints, current_sprint, current_microversion,
                 html_content, now>>

\* open(output_path, 'w') raises: nothing catches the error.
OpenFails ==
  /\ pc = "write"
  /\ pc' = "raised"
  /\ UNCHANGED <<io, lines, i, sprints, current_sprint, current_microversion,
                 html_content, now>>

\* print(f"Report generated: {output_path}")
PrintGenerated ==
  /\ pc = "print"
  /\ stdout' = Append(stdout, "Report generated")
  /\ pc' = "done"
  /\ UNCHANGED <<input_file, output_file, lines, i, sprints, current_sprint,
                 current_microversion, html_content, now>>

\* A variant that leaves an empty report behind when the input is missing.
FileNotFoundWritesReport ==
  /\ pc = "main"
  /\ ~Truthy(input_file)
  /\ stdout' = Append(stdout, "Error: Markdown file not found")
  /\ output_file' = Ref(<<>>)
  /\ pc' = "done"
  /\ UNCHANGED <<input_file, lines, i, sprints, current_sprint,
                 current_microversion, html_content, now>>

\* if not os.path.exists(markdown_file_path): print("Error: ...")
FileNotFound ==
  /\ pc = "main"
  /\ ~Truthy(input_file)
  /\ stdout' = Append(stdout, "Error: Markdown file not found")
  /\ pc' = "done"
  /\ UNCHANGED <<input_file, output_file, lines, i, sprints, current_sprint,
                 current_microversion, html_content, now>>

\* else: md_content = f.read(); parse_markdown(md_content) starts with an
\* empty result and no open record, over md_content.splitlines().
ReadInput ==
  /\ pc = "main"
  /\ Truthy(input_file)
  /\ lines' = input_file[1]
  /\ i' = 0
  /\ sprints' = <<>>
  /\ current_sprint' = None
  /\ current_microversion' = None
  /\ pc' = "parse"
  /\ UNCHANGED <<io, html_content, now>>

\* The report a previous run left at the output path.
OldReport ==
  <<Element("header", "", <<>>, <<>>),
    Element("section", "sprint", <<>>, <<"o","l","d">>),
    Element("/section", "sprint", <<>>, <<>>),
    Element("footer", "", <<>>, <<>>)>>

Init ==
  /\ input_file \in {None} \cup {Ref(d) : d \in Documents}
  /\ output_file = Ref(OldReport)
  /\ stdout = <<>>
  /\ pc = "main"
  /\ lines = <<>>
  /\ i = 0
  /\ sprints = <<>>
  /\ current_sprint = None
  /\ current_microversion = None
  /\ html_content = <<>>
  /\ now = 0

Next ==
  \/ FileNotFound
  \/ ReadInput
  \/ EpicHeader
  \/ SprintHeader
  \/ MicroversionHeader
  \/ TaskLine
  \/ SkipLine
  \/ Finalize
  \/ Render
  \/ WriteOutput
  \/ OpenFails
  \/ PrintGenerated

Spec == Init /\ [][Next]_vars

\* The program is one sequential process: while a statement can be executed,
\* one is.
SpecFair == Spec /\ WF_vars(Next)

\* The last tick of the clock.
MaxClock == 2

\* The program is started again after it ended; the clock has gone on.  The
\* files and the terminal are as the previous run left them.
RunAgain ==
  /\ pc \in {"done", "raised"}
  /\ now < MaxClock
  /\ now' = now + 1
  /\ pc' = "main"
  /\ UNCHANGED <<io, lines, i, sprints, current_sprint, current_microversion,
                 html_content>>

\* Before the first run the markdown file may be missing, and the output
\* path may hold no file or the report of an earlier version of the plan.
InitRuns ==
  /\ input_file \in {None} \cup {Ref(d) : d \in RunDocuments}
  /\ output_file \in {None, Ref(OldReport)}
  /\ stdout = <<>>
  /\ pc = "main"
  /\ lines = <<>>
  /\ i = 0
  /\ sprints = <<>>
  /\ current_sprint = None
  /\ current_microversion = None
  /\ html_content = <<>>
  /\ now = 0

NextRuns == Next \/ RunAgain

\* The program run several times on the same files.
SpecRuns == InitRuns /\ [][NextRuns]_vars

(***************************************************************************)
(* The document as the specification reads it: which lines are headers,    *)
(* which microversion and task lines have an open parent, and the record   *)
(* each line stands for.  Line numbers k range over 1..Len(lines).         *)
(***************************************************************************)
IsHeaderLine(k) ==
  Truthy(LineMatches(lines[k]).epic) \/ Truthy(LineMatches(lines[k]).sprint)

IsMicroversionLine(k) ==
  ~IsHeaderLine(k) /\ Truthy(LineMatches(lines[k]).microversion)

IsTaskLine(k) ==
  /\ ~IsHeaderLine(k)
  /\ ~Truthy(LineMatches(lines[k]).microversion)
  /\ Truthy(LineMatches(lines[k]).task)

IsOtherLine(k) ==
  /\ ~IsHeaderLine(k)
  /\ ~Truthy(LineMatches(lines[k]).microversion)
  /\ ~Truthy(LineMatches(lines[k]).task)

\* The nearest Epic/Sprint header among lines 1..n (0: none).
LastHeader(n) == Max({0} \cup {h \in 1..n : IsHeaderLine(h)})

\* A microversion header is accepted when an Epic/Sprint header precedes it.
AcceptedMicroversion(j) == IsMicroversionLine(j) /\ LastHeader(j) > 0

\* The accepted microversion header that is open after lines 1..n (0: none):
\* the nearest one after the nearest Epic/Sprint header h (it is accepted
\* when there is such a header, which is then its nearest header too).
OpenMicroversionLine(n) ==
  LET h == LastHeader(n)
  IN  Max({0} \cup {j \in (h + 1)..n : h > 0 /\ IsMicroversionLine(j)})

\* A task line is accepted when a microversion is open before it.
AcceptedTask(k) == IsTaskLine(k) /\ OpenMicroversionLine(k - 1) > 0

\* The elements of a finite set of numbers in increasing order.
RECURSIVE SortedSeq(_)
SortedSeq(S) ==
  IF S = {} THEN <<>> ELSE <<Min(S)>> \o SortedSeq(S \ {Min(S)})

HeaderTitle(h) ==
  IF Truthy(LineMatches(lines[h]).epic)
  THEN Strip(LineMatches(lines[h]).epic[1][1])
  ELSE Strip(LineMatches(lines[h]).sprint[1][1])

\* The task lines that belong to the microversion of line j, among lines 1..n.
TaskLinesOf(j, n) ==
  {k \in (j + 1)..n : AcceptedTask(k) /\ OpenMicroversionLine(k - 1) = j}

\* The microversion lines that belong to the header of line h, among 1..n.
MicroversionLinesOf(h, n) ==
  {j \in (h + 1)..n : AcceptedMicroversion(j) /\ LastHeader(j) = h}

DocumentTask(k) == NewTask(LineMatches(lines[k]).task[1])

DocumentMicroversion(j, n) ==
  LET K == SortedSeq(TaskLinesOf(j, n))
  IN  [title |-> NewMicroversion(LineMatches(lines[j]).microversion[1]).title,
       tasks |-> [m \in 1..Len(K) |-> DocumentTask(K[m])]]

DocumentSprint(h, n) ==
  LET J == SortedSeq(MicroversionLinesOf(h, n))
  IN  [title |-> HeaderTitle(h),
       microversions |-> [m \in 1..Len(J) |-> DocumentMicroversion(J[m], n)]]

HeaderLines == {h \in 1..Len(lines) : IsHeaderLine(h)}

\* The hierarchy the document describes: one record per header, each with
\* the microversions that follow it, each with the tasks that follow it.
DocumentModel ==
  LET H == SortedSeq(HeaderLines)
  IN  [m \in 1..Len(H) |-> DocumentSprint(H[m], Len(lines))]

\* The number of Task records in a list of Sprint records.
RECURSIVE TaskCount(_)
TaskCount(model) ==
  IF model = <<>> THEN 0
  ELSE SumTotal(Head(model).microversions) + TaskCount(Tail(model))

\* parse_markdown has returned.
Parsed == pc \in {"render", "write", "print", "raised"} \/ (pc = "done" /\ Truthy(input_file))

Last(seq) == seq[Len(seq)]

(***************************************************************************)
(* Claims.                                                                 *)
(***************************************************************************)
\* C1: whenever an Epic or Sprint header is processed while a Microversion
\* is open, that Microversion, with the tasks accumulated in it, is appended
\* to the microversion list of the record that is being closed, and so is
\* part of the result.
C1_OpenMicroversionClosedByHeader ==
  [][ ((EpicHeader \/ SprintHeader) /\ Truthy(current_microversion))
        => /\ Len(sprints') = Len(sprints) + 1
           /\ Last(sprints').microversions # <<>>
           /\ Last(Last(sprints').microversions) = current_microversion[1] ]_vars

\* C2: the number of Task records in the result of parse_markdown equals the
\* number of task lines that were processed while a Microversion was open.
C2_TaskCountEqualsAcceptedLines ==
  Parsed =>
    TaskCount(sprints) = Cardinality({k \in 1..Len(lines) : AcceptedTask(k)})

\* C3: in the result every accepted Task is in the Microversion opened by the
\* nearest preceding accepted Microversion header and every accepted
\* Microversion is in the record opened by the nearest preceding Epic/Sprint
\* header, each exactly once and in document order.
C3_ResultFollowsDocument ==
  Parsed => sprints = DocumentModel

\* C4: at end of input the still-open Microversion is appended to the
\* still-open Sprint and that Sprint to the result: the last record opened is
\* the last element of the result, and the last Microversion opened under it
\* is the last element of its microversion list, with all its tasks.
C4_FinalizationKeepsOpenRecords ==
  (Parsed /\ LastHeader(Len(lines)) > 0) =>
    /\ sprints # <<>>
    /\ Last(sprints).title = HeaderTitle(LastHeader(Len(lines)))
    /\ OpenMicroversionLine(Len(lines)) > 0 =>
         /\ Last(sprints).microversions # <<>>
         /\ Last(Last(sprints).microversions) =
              DocumentMicroversion(OpenMicroversionLine(Len(lines)), Len(lines))

\* The document ends with a microversion that is open and holds a task.
C4_Witness ==
  /\ Parsed
  /\ OpenMicroversionLine(Len(lines)) > 0
  /\ TaskLinesOf(OpenMicroversionLine(Len(lines)), Len(lines)) # {}
  /\ Len(sprints) >= 2

\* C5: the result has exactly one entry per Epic or Sprint header line, in
\* document order, duplicate titles included; the entry of a header that is
\* immediately followed by another header has no microversions.
C5_OneEntryPerHeader ==
  Parsed =>
    /\ Len(sprints) = Cardinality(HeaderLines)
    /\ \A m \in 1..Len(sprints) :
         LET h == SortedSeq(HeaderLines)[m]
         IN  /\ sprints[m].title = HeaderTitle(h)
             /\ (h < Len(lines) /\ IsHeaderLine(h + 1))
                  => sprints[m].microversions = <<>>

\* An Epic header immediately followed by a Sprint header, and a title that
\* occurs twice.
C5_Witness ==
  /\ Parsed
  /\ \E h \in 1..(Len(lines) - 1) :
       /\ Truthy(LineMatches(lines[h]).epic)
       /\ Truthy(LineMatches(lines[h + 1]).sprint)
  /\ \E m, n \in 1..Len(sprints) : m # n /\ sprints[m].title = sprints[n].title

\* The open microversion as the document gives it after lines 1..n.
DocumentOpenMicroversion(n) ==
  IF OpenMicroversionLine(n) > 0
  THEN Ref(DocumentMicroversion(OpenMicroversionLine(n), n))
  ELSE None

\* C6: a Task line processed while no Microversion is open raises no error
\* and leaves the result list, the open Sprint and the open Microversion as
\* they were; it is never attached to a Microversion opened later (the open
\* Microversion holds exactly the task lines that follow its own header), and
\* the result holds no Task record for it.
C6_OrphanTaskDiscarded ==
  /\ [][ (InLoop /\ IsTaskLine(i + 1) /\ ~Truthy(current_microversion))
           => /\ UNCHANGED <<sprints, current_sprint, current_microversion>>
              /\ i' = i + 1
              /\ pc' = "parse" ]_vars
  /\ [](pc = "parse" => current_microversion = DocumentOpenMicroversion(i))
  /\ [](Parsed =>
          TaskCount(sprints) <= Cardinality({k \in 1..Len(lines) : AcceptedTask(k)}))

\* A task line after a Sprint header and before any microversion header,
\* followed by a microversion that takes a task.
C6_Witness ==
  /\ Parsed
  /\ \E k, j \in 1..Len(lines) :
       /\ k < j
       /\ IsTaskLine(k) /\ ~AcceptedTask(k) /\ LastHeader(k) > 0
       /\ AcceptedMicroversion(j) /\ LastHeader(j) = LastHeader(k)
       /\ TaskLinesOf(j, Len(lines)) # {}

\* The microversions of the open record as the document gives them after
\* lines 1..n: those closed under it, then the open one.
DocumentOpenSprintMicroversions(n) ==
  DocumentSprint(LastHeader(n), n).microversions

\* C7: a Microversion header processed while no Sprint/Epic is open opens no
\* Microversion and leaves the parser state as it was; the Task lines after
\* it are discarded too (nothing is recorded before the first Epic/Sprint
\* header), and it never appears under a Sprint opened later (the open record
\* holds exactly the microversion lines that follow its own header).
C7_OrphanMicroversionDiscarded ==
  /\ [][ (InLoop /\ IsMicroversionLine(i + 1) /\ ~Truthy(current_sprint))
           => /\ UNCHANGED <<sprints, current_sprint, current_microversion>>
              /\ current_microversion' = None
              /\ i' = i + 1
              /\ pc' = "parse" ]_vars
  /\ [](pc = "parse" /\ LastHeader(i) = 0
          => sprints = <<>> /\ current_sprint = None /\ current_microversion = None)
  /\ [](pc = "parse" /\ LastHeader(i) > 0
          => /\ Truthy(current_sprint)
             /\ current_sprint[1].microversions \o current_microversion
                  = DocumentOpenSprintMicroversions(i))

\* A microversion header and a task line before the first header, and a
\* microversion with a task after it.
C7_Witness ==
  /\ Parsed
  /\ \E j, k, h, m \in 1..Len(lines) :
       /\ j < k /\ k < h /\ h < m
       /\ IsMicroversionLine(j) /\ IsTaskLine(k) /\ LastHeader(k) = 0
       /\ IsHeaderLine(h)
       /\ AcceptedMicroversion(m)

\* C8: a line that matches none of the four patterns leaves the result list,
\* the open Sprint and the open Microversion with its tasks unchanged, and
\* raises no error.
C8_UnmatchedLineChangesNothing ==
  [][ (InLoop /\ IsOtherLine(i + 1))
        => /\ UNCHANGED <<sprints, current_sprint, current_microversion>>
           /\ i' = i + 1
           /\ pc' = "parse" ]_vars

\* An unmatched line has just been processed while a sprint and a
\* microversion with a task were open.
C8_Witness ==
  /\ pc = "parse"
  /\ i >= 1
  /\ IsOtherLine(i)
  /\ Truthy(current_sprint)
  /\ Truthy(current_microversion)
  /\ current_microversion[1].tasks # <<>>

\* Every Task record the parser holds: in the result, in the open Sprint and
\* in the open Microversion.
TasksOf(mvs) == UNION {{mv.tasks[n] : n \in 1..Len(mv.tasks)} : mv \in mvs}

AllMicroversions ==
  UNION {{s.microversions[n] : n \in 1..Len(s.microversions)} :
           s \in {sprints[m] : m \in 1..Len(sprints)}
                   \cup {current_sprint[m] : m \in 1..Len(current_sprint)}}
    \cup {current_microversion[m] : m \in 1..Len(current_microversion)}

\* C9: the status of every recorded Task is Complete exactly when the
\* checkbox of its line holds 'x' or U+2705 and Open exactly when it holds a
\* blank; it is one of these two values for as long as the record exists.
C9_StatusFollowsCheckbox ==
  /\ \A t \in TasksOf(AllMicroversions) :
       /\ t.status \in {"Complete", "Open"}
       /\ \E k \in 1..Len(lines) :
            /\ AcceptedTask(k)
            /\ LineMatches(lines[k]).task[1][2] = t.id
            /\ t.status = "Complete" <=> lines[k][4] \in {"x", CheckMark}
            /\ t.status = "Open" <=> lines[k][4] = " "
  /\ (pc = "parse" /\ Truthy(current_microversion)) =>
       LET K == SortedSeq(TaskLinesOf(OpenMicroversionLine(i), i))
           tasks == current_microversion[1].tasks
       IN  /\ Len(tasks) = Len(K)
           /\ \A n \in 1..Len(K) :
                /\ tasks[n].status = "Complete"
                     <=> lines[K[n]][4] \in {"x", CheckMark}
                /\ tasks[n].status = "Open" <=> lines[K[n]][4] = " "

\* A microversion of the result holds the task of a line checked with
\* U+2705, as Complete, and the task of an unchecked line, as Open.
C9_Witness ==
  /\ Parsed
  /\ \E k \in 1..Len(lines) : AcceptedTask(k) /\ lines[k][4] = CheckMark
  /\ \E mv \in AllMicroversions :
       /\ \E n \in 1..Len(mv.tasks) :
            mv.tasks[n].status = "Complete" /\ mv.tasks[n].id = <<"T","2">>
       /\ \E n \in 1..Len(mv.tasks) : mv.tasks[n].status = "Open"

ExampleResult ==
  << [title |-> <<"E","p","i","c"," ","1",":"," ","F","o","o">>,
      microversions |-> <<>>],
     [title |-> <<"S","p","r","i","n","t"," ","1",":"," ","B","a","r">>,
      microversions |->
        << [title |-> <<"v","0",".","1",".","0",".","0"," ","-"," ",
                        "S","e","t","u","p">>,
            tasks |->
              << [id |-> <<"T","1",".","1">>,
                  description |-> <<"D","o"," ","t","h","i","n","g">>,
                  status |-> "Complete"],
                 [id |-> <<"T","1",".","2">>,
                  description |-> <<"D","o"," ","o","t","h","e","r"," ",
                                    "t","h","i","n","g">>,
                  status |-> "Open"] >>] >>] >>

\* C10: parsing the example document gives two records, "Epic 1: Foo" with no
\* microversions and "Sprint 1: Bar" with the microversion "v0.1.0.0 - Setup"
\* holding (T1.1, "Do thing", Complete) and (T1.2, "Do other thing", Open) in
\* that order, and the progress rendered for the microversion is
\* "1/2 (50.0%)".
C10_ExampleDocument ==
  (lines = ExampleDocument /\ pc \in {"write", "print", "raised", "done"}) =>
    /\ sprints = ExampleResult
    /\ \E n \in 2..Len(html_content) :
         /\ html_content[n - 1].tag = "h3"
         /\ html_content[n - 1].text = ExampleResult[2].microversions[1].title
         /\ html_content[n].class = "progress-bar"
         /\ html_content[n].text =
              <<"1","/","2"," ","(","5","0",".","0","%",")">>

\* The example document has been parsed and rendered.
C10_Witness == lines = ExampleDocument /\ pc = "write"

\* generate_html_report has assembled the report of a document.
Rendered == pc \in {"write", "print", "raised"} \/ (pc = "done" /\ Truthy(input_file))

\* All microversions of a list of Sprint records, in order.
RECURSIVE FlatMicroversions(_)
FlatMicroversions(model) ==
  IF model = <<>> THEN <<>>
  ELSE Head(model).microversions \o FlatMicroversions(Tail(model))

\* The positions in html_content of the elements of a class, in order.
ElementsOfClass(class) ==
  SortedSeq({n \in 1..Len(html_content) : html_content[n].class = class})

\* Reading a shown progress text "c/t (p.d%)" back as numbers.
DigitValue(ch) == CHOOSE d \in 0..9 : DigitChar(d) = ch

RECURSIVE NatOf(_)
NatOf(text) ==
  IF text = <<>> THEN 0
  ELSE 10 * NatOf(SubSeq(text, 1, Len(text) - 1)) + DigitValue(Last(text))

Position(text, ch) == Min({k \in 1..Len(text) : text[k] = ch})

IsNumeral(text) ==
  text # <<>> /\ \A k \in 1..Len(text) : text[k] \in Digits

ShownCompletedText(text) == SubSeq(text, 1, Position(text, "/") - 1)

ShownTotalText(text) ==
  SubSeq(text, Position(text, "/") + 1, Position(text, " ") - 1)

ShownPercentText(text) ==
  SubSeq(text, Position(text, "(") + 1, Position(text, "%") - 1)

\* The shown percentage has the form of a numeral with one decimal place.
OneDecimalPlace(percent) ==
  /\ Len(percent) >= 3
  /\ percent[Len(percent) - 1] = "."
  /\ percent[Len(percent)] \in Digits
  /\ IsNumeral(SubSeq(percent, 1, Len(percent) - 2))

\* The shown percentage in tenths of a percent.
ShownTenths(percent) ==
  10 * NatOf(SubSeq(percent, 1, Len(percent) - 2))
    + DigitValue(percent[Len(percent)])

Distance(a, b) == IF a >= b THEN a - b ELSE b - a

\* C11: for every Microversion the report shows its number of Complete tasks,
\* its number of tasks and a percentage with one decimal place; with total > 0
\* the percentage is completed/total*100 rounded to one decimal place (it is
\* within 0.05 of the exact value), and with total = 0 it is 0.0 and the
\* notice that the microversion has no tasks follows.
C11_ProgressPercentage ==
  Rendered =>
    LET mvs == FlatMicroversions(sprints)
        bars == ElementsOfClass("progress-bar")
    IN  /\ Len(bars) = Len(mvs)
        /\ \A m \in 1..Len(mvs) :
             LET text == html_content[bars[m]].text
                 total == Len(mvs[m].tasks)
                 completed ==
                   Cardinality({k \in 1..total :
                                  mvs[m].tasks[k].status = "Complete"})
                 percent == ShownPercentText(text)
             IN  /\ IsNumeral(ShownCompletedText(text))
                 /\ NatOf(ShownCompletedText(text)) = completed
                 /\ IsNumeral(ShownTotalText(text))
                 /\ NatOf(ShownTotalText(text)) = total
                 /\ OneDecimalPlace(percent)
                 /\ total > 0 =>
                      2 * Distance(ShownTenths(percent) * total,
                                   1000 * completed) <= total
                 /\ total = 0 =>
                      /\ percent = <<"0", ".", "0">>
                      /\ html_content[bars[m] + 1].class = "no-tasks"

\* A report that shows 66.7% for two Complete tasks of three, and 0.0% with
\* the notice for a microversion without tasks.
C11_Witness ==
  /\ Rendered
  /\ \E n \in 1..Len(html_content) :
       html_content[n].text =
         <<"2","/","3"," ","(","6","6",".","7","%",")">>
  /\ \E n \in 1..(Len(html_content) - 1) :
       /\ html_content[n].text =
            <<"0","/","0"," ","(","0",".","0","%",")">>
       /\ html_content[n + 1].class = "no-tasks"

\* The positions in html_content of the elements of a tag, in order.
ElementsOfTag(tag) ==
  SortedSeq({n \in 1..Len(html_content) : html_content[n].tag = tag})

\* The tasks of a Sprint record, as (microversion, task) positions.
SprintTaskPositions(sprint) ==
  UNION {{<<a, b>> : b \in 1..Len(sprint.microversions[a].tasks)} :
           a \in 1..Len(sprint.microversions)}

SprintCompletedPositions(sprint) ==
  {p \in SprintTaskPositions(sprint) :
     sprint.microversions[p[1]].tasks[p[2]].status = "Complete"}

\* C12: for every Sprint of the result the report shows, after its
\* microversions, a summary with the number of Complete tasks and the number
\* of tasks of all its microversions together, in the same percentage
\* format, exactly when that number of tasks is greater than 0; otherwise
\* its section holds no summary.
C12_SprintSummary ==
  Rendered =>
    LET opens == ElementsOfTag("section")
        closes == ElementsOfTag("/section")
    IN  /\ Len(opens) = Len(sprints)
        /\ Len(closes) = Len(sprints)
        /\ \A m \in 1..Len(sprints) :
             LET total == Cardinality(SprintTaskPositions(sprints[m]))
                 completed == Cardinality(SprintCompletedPositions(sprints[m]))
                 summaries ==
                   {n \in opens[m]..closes[m] :
                      html_content[n].class = "sprint-summary"}
             IN  /\ opens[m] < closes[m]
                 /\ total = 0 => summaries = {}
                 /\ total > 0 =>
                      /\ summaries = {closes[m] - 1}
                      /\ LET text == html_content[closes[m] - 1].text
                             percent == ShownPercentText(text)
                         IN  /\ NatOf(ShownCompletedText(text)) = completed
                             /\ NatOf(ShownTotalText(text)) = total
                             /\ OneDecimalPlace(percent)
                             /\ 2 * Distance(ShownTenths(percent) * total,
                                             1000 * completed) <= total

\* A report with a section without summary and a section whose summary adds
\* the tasks of two microversions, some of them Complete.
C12_Witness ==
  /\ Rendered
  /\ \E m \in 1..Len(sprints) : SprintTaskPositions(sprints[m]) = {}
  /\ \E m \in 1..Len(sprints) :
       /\ \E a, b \in 1..Len(sprints[m].microversions) :
            /\ a # b
            /\ sprints[m].microversions[a].tasks # <<>>
            /\ sprints[m].microversions[b].tasks # <<>>
       /\ SprintCompletedPositions(sprints[m]) # {}
       /\ SprintCompletedPositions(sprints[m]) # SprintTaskPositions(sprints[m])
       /\ \E n \in 1..Len(html_content) :
            html_content[n].class = "sprint-summary"

\* An element without its text.
WithoutText(element) == [element EXCEPT !.text = <<>>]

C14_MissingInputFile ==
  /\ [][ ~Truthy(input_file)
           => /\ UNCHANGED <<input_file, output_file, lines, i, sprints,
                             current_sprint, current_microversion,
                             html_content>>
              /\ pc' \in {"main", "done"} ]_vars
  /\ [][ (~Truthy(input_file) /\ pc = "main")
           => /\ stdout' = Append(stdout, "Error: Markdown file not found")
              /\ pc' = "done" ]_vars
  /\ [](~Truthy(input_file) =>
          /\ pc \in {"main", "done"}
          /\ lines = <<>> /\ sprints = <<>> /\ html_content = <<>>
          /\ \A n \in 1..Len(stdout) :
               stdout[n] = "Error: Markdown file not found")

\* The program has ended with the diagnostic message; there was no output
\* file and there is none.
C14_Witness ==
  /\ ~Truthy(input_file)
  /\ pc = "done"
  /\ stdout = <<"Error: Markdown file not found">>
  /\ ~Truthy(output_file)

\* C15: the step after the HTML is assembled either writes it to the output
\* file or, when the file cannot be opened, ends in an error that leaves the
\* file and the printed messages as they were; nothing is done after that
\* error (no second attempt, no other path, no message), so "Report
\* generated" is not printed in that run.
C15_OpenFailureIsFatal ==
  /\ [][ pc = "write"
           => \/ /\ pc' = "print"
                 /\ output_file' = Ref(html_content)
                 /\ stdout' = stdout
              \/ /\ pc' = "raised"
                 /\ UNCHANGED <<output_file, stdout>> ]_vars
  /\ [][pc # "raised"]_vars
  /\ [](pc = "raised" =>
          /\ \A n \in 1..Len(stdout) : stdout[n] # "Report generated"
          /\ output_file = Ref(OldReport))

\* The run has ended in the error after a report with tasks was assembled.
C15_Witness ==
  /\ pc = "raised"
  /\ \E n \in 1..Len(html_content) : html_content[n].tag = "li"
  /\ output_file # Ref(html_content)

C17_TaskListOrNotice ==
  Rendered =>
    LET mvs == FlatMicroversions(sprints)
        bars == ElementsOfClass("progress-bar")
        ends == ElementsOfTag("/div")
    IN  /\ Len(bars) = Len(mvs)
        /\ Len(ends) = Len(mvs)
        /\ \A m \in 1..Len(mvs) :
             LET tasks == mvs[m].tasks
                 first == bars[m] + 1
                 block == first..(ends[m] - 1)
             IN  /\ tasks # <<>> =>
                      /\ ends[m] = first + Len(tasks) + 2
                      /\ html_content[first].tag = "ul"
                      /\ html_content[ends[m] - 1].tag = "/ul"
                      /\ \A k \in 1..Len(tasks) :
                           LET item == html_content[first + k]
                           IN  /\ item.tag = "li"
                               /\ item.id = tasks[k].id
                               /\ item.text = tasks[k].description
                               /\ tasks[k].status = "Complete"
                                    => item.class = "task-complete"
                               /\ tasks[k].status # "Complete"
                                    => item.class = "task-open"
                      /\ \A n \in block : html_content[n].class # "no-tasks"
                 /\ tasks = <<>> =>
                      /\ ends[m] = first + 1
                      /\ html_content[first].class = "no-tasks"

\* A report with a microversion that holds a Complete task before an Open
\* one, and a microversion without tasks.
C17_Witness ==
  /\ Rendered
  /\ \E mv \in AllMicroversions : mv.tasks = <<>>
  /\ \E mv \in AllMicroversions :
       /\ Len(mv.tasks) >= 2
       /\ mv.tasks[1].status = "Complete"
       /\ mv.tasks[2].status = "Open"
  /\ \E n \in 1..Len(html_content) : html_content[n].class = "no-tasks"
  /\ \E n \in 1..Len(html_content) : html_content[n].class = "task-open"

\* C18: processing an Epic header line and processing a Sprint header line
\* change the parser state in the same way: the open record, if there is
\* one, is appended to the result as it is, and otherwise the result stays as
\* it was; a new record with the title of the header and no microversions
\* becomes the open record; no Microversion is open afterwards.
C18_HeaderEffect ==
  [][ (InLoop /\ IsHeaderLine(i + 1))
        => /\ Truthy(current_sprint)
                => sprints' = Append(sprints, current_sprint[1])
           /\ ~Truthy(current_sprint) => sprints' = sprints
           /\ current_sprint' =
                Ref([title |-> HeaderTitle(i + 1), microversions |-> <<>>])
           /\ current_microversion' = None
           /\ i' = i + 1
           /\ pc' = "parse" ]_vars

\* An Epic header has just been processed after a Sprint header and a
\* Microversion header: the Sprint record was appended and nothing is open
\* under the Epic.
C18_Witness ==
  /\ pc = "parse"
  /\ i >= 3
  /\ Truthy(LineMatches(lines[i]).epic)
  /\ \E h \in 1..(i - 2) : Truthy(LineMatches(lines[h]).sprint)
  /\ OpenMicroversionLine(i - 1) > 0
  /\ sprints # <<>>
  /\ current_microversion = None

\* s is an initial part of t.
IsPrefix(s, t) == Len(s) <= Len(t) /\ SubSeq(t, 1, Len(s)) = s

\* C19: a Microversion header line processed while a record is open appends
\* the open Microversion, if there is one, to the end of the microversion
\* list of the open record, and opens a new Microversion with the title of
\* the line and no tasks; a Task line processed afterwards is appended to
\* the open Microversion and to nothing else, and the Microversions already
\* in the list of the open record stay as they are.
C19_MicroversionHeaderEffect ==
  /\ [][ (InLoop /\ IsMicroversionLine(i + 1) /\ Truthy(current_sprint))
           => /\ current_sprint'[1].title = current_sprint[1].title
              /\ current_sprint'[1].microversions =
                   current_sprint[1].microversions \o current_microversion
              /\ current_microversion' =
                   Ref([title |->
                          <<"v">> \o LineMatches(lines[i + 1]).microversion[1][1]
                            \o <<" ", "-", " ">>
                            \o Strip(LineMatches(lines[i + 1]).microversion[1][2]),
                        tasks |-> <<>>])
              /\ sprints' = sprints ]_vars
  /\ [][ (InLoop /\ IsTaskLine(i + 1) /\ Truthy(current_microversion))
           => /\ UNCHANGED <<sprints, current_sprint>>
              /\ current_microversion'[1].title = current_microversion[1].title
              /\ current_microversion'[1].tasks =
                   Append(current_microversion[1].tasks, DocumentTask(i + 1))
         ]_vars
  /\ [][ (InLoop /\ ~IsHeaderLine(i + 1) /\ Truthy(current_sprint))
           => IsPrefix(current_sprint[1].microversions,
                       current_sprint'[1].microversions) ]_vars

\* A task has just been appended to a Microversion that was opened while
\* another one with tasks was open: the earlier one is in the list of the
\* open record with its tasks.
C19_Witness ==
  /\ pc = "parse"
  /\ Truthy(current_sprint)
  /\ Truthy(current_microversion)
  /\ current_microversion[1].tasks # <<>>
  /\ current_sprint[1].microversions # <<>>
  /\ Last(current_sprint[1].microversions).tasks # <<>>

\* The metadata markers.
MetadataMarkers ==
  { <<" ","-"," ","*","*","E","f","f","o","r","t">>,
    <<"[","E","f","f","o","r","t">>,
    <<"(","E","f","f","o","r","t">>,
    <<"D","e","p","e","n","d","e","n","c","i","e","s">>,
    <<"A","s","s","i","g","n","e","e">>,
    <<"G","r","a","n","u","l","a","r"," ","S","t","e","p","s">>,
    <<"C","o","m","p","l","e","t","i","o","n"," ","N","o","t","e","s">> }

\* The text of a task line after the colon that follows its identifier.
AfterIdentifierColon(line) ==
  LET colon ==
        Min({k \in 9..Len(line) :
               SubSeq(line, k - 2, k) = <<"*", "*", ":">>})
  IN  SubSeq(line, colon + 1, Len(line))

\* The positions of a text at which a metadata marker occurs.
MarkerOccurrences(text) ==
  {k \in 1..Len(text) :
     \E marker \in MetadataMarkers :
       /\ k + Len(marker) - 1 <= Len(text)
       /\ SubSeq(text, k, k + Len(marker) - 1) = marker}

\* The text up to the earliest metadata marker or the end, without the
\* whitespace around it.
UpToEarliestMarker(text) ==
  Strip(SubSeq(text, 1, Min(MarkerOccurrences(text) \cup {Len(text) + 1}) - 1))

\* C20: the description recorded for an accepted Task line is the text after
\* the colon of the identifier up to the earliest occurrence of a metadata
\* marker, or up to the end of the line when there is none, without the
\* whitespace around it.
C20_DescriptionUpToMarker ==
  (pc = "parse" /\ i >= 1 /\ AcceptedTask(i)) =>
    Last(current_microversion[1].tasks).description
      = UpToEarliestMarker(AfterIdentifierColon(lines[i]))

\* C21: every Microversion header line accepted under an Epic header is a
\* Microversion of the record of that Epic in the result; right after a
\* Sprint header is processed the new record has no microversions and no
\* Microversion is open; and every Microversion of a record of the result
\* comes from a Microversion header line under the header of that record,
\* with the tasks of the lines under it.
C21_MicroversionUnderEpic ==
  /\ (pc = "parse" /\ i >= 1 /\ IsHeaderLine(i)) =>
       /\ current_sprint[1].microversions = <<>>
       /\ current_microversion = None
  /\ Parsed =>
       LET H == SortedSeq(HeaderLines)
       IN  /\ Len(sprints) = Len(H)
           /\ \A m \in 1..Len(H) :
                LET J == MicroversionLinesOf(H[m], Len(lines))
                    mvs == sprints[m].microversions
                IN  /\ Truthy(LineMatches(lines[H[m]]).epic)
                         => \A j \in J :
                              \E p \in 1..Len(mvs) :
                                mvs[p] = DocumentMicroversion(j, Len(lines))
                    /\ \A p \in 1..Len(mvs) :
                         \E j \in J :
                           mvs[p] = DocumentMicroversion(j, Len(lines))

\* The place of a statement in the order of the run.
StepRank(at) ==
  CASE at = "main" -> 0
    [] at = "parse" -> 1
    [] at = "render" -> 2
    [] at = "write" -> 3
    [] at = "print" -> 4
    [] at = "done" -> 5

\* C22: in a run whose input file exists, the program goes through the check
\* and the read of the input, the parse, the render, the write and the
\* message in this order, never back and never past one of them, unless the
\* output file cannot be opened; the input is read before anything is
\* parsed, the result is complete before the HTML is assembled, the HTML is
\* complete before the file is written, and "Report generated" is printed
\* once, after the file holds the report.
C22_StepOrder ==
  /\ [][ (Truthy(input_file) /\ pc' # pc /\ pc' # "raised")
           => StepRank(pc') = StepRank(pc) + 1 ]_vars
  /\ [][ (Truthy(input_file) /\ pc = "main") => lines' = input_file[1] ]_vars
  /\ [](Truthy(input_file) =>
          /\ pc = "main" => lines = <<>>
          /\ pc \in {"main", "parse"} => i <= Len(lines)
          /\ pc \in {"main", "parse", "render"} => html_content = <<>>
          /\ pc \in {"main", "parse", "render", "write", "raised"} =>
               output_file = Ref(OldReport) /\ stdout = <<>>
          /\ pc \in {"render", "write", "print", "done", "raised"} =>
               i = Len(lines)
          /\ pc \in {"write", "print", "done", "raised"} =>
               /\ html_content # <<>>
               /\ Last(html_content).tag = "footer"
          /\ pc = "print" => output_file = Ref(html_content) /\ stdout = <<>>
          /\ pc = "done" =>
               /\ output_file = Ref(html_content)
               /\ stdout = <<"Report generated">>)

\* A run has ended after it wrote the report of a document with a record
\* and printed the message.
C22_Witness ==
  /\ Truthy(input_file)
  /\ pc = "done"
  /\ sprints # <<>>
  /\ output_file = Ref(html_content)
  /\ stdout = <<"Report generated">>

\* C23: the loop of parse_markdown takes the lines one by one from the first
\* to the last (each step of the parse moves on by exactly one line, so no
\* line is taken twice and none is left out), it leaves the loop only after
\* the last line, for the finalisation, and every parse that has started
\* gets there.
C23_ParseTerminates ==
  /\ [][ (pc = "parse" /\ pc' = "parse") => i' = i + 1 /\ lines' = lines ]_vars
  /\ [][ (pc = "parse" /\ pc' # "parse")
           => i = Len(lines) /\ pc' = "render" /\ lines' = lines ]_vars
  /\ [][ pc' = "parse" /\ pc # "parse" => i' = 0 ]_vars
  /\ [](pc = "parse" => i \in 0..Len(lines))
  /\ (pc = "parse") ~> (pc = "render" /\ i = Len(lines))

\* The parse of a document of four lines or more has reached its end.
C23_Witness ==
  /\ pc = "render"
  /\ Len(lines) >= 4
  /\ i = Len(lines)

\* The records the parser holds: those of the result and the open one.
AllSprints ==
  {sprints[m] : m \in 1..Len(sprints)}
    \cup {current_sprint[m] : m \in 1..Len(current_sprint)}

\* C24: every record the parser holds has a title and a microversion list
\* and nothing else, a task line under a header without an open Microversion
\* included; in the report of a parser result no task list stands directly
\* under a section (every list is inside a microversion block), and the
\* tasks counted in a sprint summary are as many as the items of the
\* microversion blocks of its section.
C24_NoDirectTasks ==
  /\ \A sprint \in AllSprints : DOMAIN sprint = {"title", "microversions"}
  /\ Rendered =>
       LET opens == ElementsOfTag("section")
           closes == ElementsOfTag("/section")
           lists == ElementsOfTag("ul")
           bars == ElementsOfClass("progress-bar")
           ends == ElementsOfTag("/div")
       IN  /\ \A n \in 1..Len(lists) :
                \E m \in 1..Len(bars) : bars[m] < lists[n] /\ lists[n] < ends[m]
           /\ \A m \in 1..Len(opens) :
                html_content[closes[m] - 1].class = "sprint-summary" =>
                  NatOf(ShownTotalText(html_content[closes[m] - 1].text))
                    = Cardinality({n \in opens[m]..closes[m] :
                                     html_content[n].tag = "li"})

\* The report of a document in which a task line follows a Sprint or Epic
\* header directly, and another one follows a Microversion header.
C24_Witness ==
  /\ Rendered
  /\ \E k \in 1..Len(lines) :
       IsTaskLine(k) /\ LastHeader(k) > 0 /\ ~AcceptedTask(k)
  /\ \E k \in 1..Len(lines) : AcceptedTask(k)
  /\ \E n \in 1..Len(html_content) : html_content[n].class = "sprint-summary"

\* C25: during the parse a Microversion is open only while a Sprint/Epic
\* record is open, and once a record is open one is open after every
\* further step of the parse, the finalisation included.
C25_OpenRecords ==
  /\ [](pc = "parse" =>
          (Truthy(current_microversion) => Truthy(current_sprint)))
  /\ [][ (pc = "parse" /\ Truthy(current_sprint))
           => Truthy(current_sprint') ]_vars
  /\ [](pc = "parse" =>
          (Truthy(current_sprint) <=> LastHeader(i) > 0))

\* At the end of the input a record and a Microversion are open, after
\* another record was closed by a header.
C25_Witness ==
  /\ pc = "parse"
  /\ i = Len(lines)
  /\ sprints # <<>>
  /\ Truthy(current_sprint)
  /\ Truthy(current_microversion)

\* C26: closed records are never modified.  Through every step of the parse,
\* the finalisation included, the records already appended to the result stay
\* what they were and new records only follow them; the microversions already
\* attached to the open sprint stay what they were, with their task lists,
\* while that sprint stays open, and they are the first microversions of its
\* record when a header line closes it.  So a step changes only the open
\* sprint's list by extending it and the open microversion.
C26_ClosedRecordsFrozen ==
  /\ [][ pc = "parse" => IsPrefix(sprints, sprints') ]_vars
  /\ [][ (pc = "parse" /\ Truthy(current_sprint)
            /\ ~(i < Len(lines) /\ IsHeaderLine(i + 1)))
         => /\ Truthy(current_sprint')
            /\ current_sprint'[1].title = current_sprint[1].title
            /\ IsPrefix(current_sprint[1].microversions,
                        current_sprint'[1].microversions) ]_vars
  /\ [][ (pc = "parse" /\ Truthy(current_sprint)
            /\ i < Len(lines) /\ IsHeaderLine(i + 1))
         => /\ Len(sprints') = Len(sprints) + 1
            /\ Last(sprints').title = current_sprint[1].title
            /\ IsPrefix(current_sprint[1].microversions,
                        Last(sprints').microversions) ]_vars

\* A parse at the end of its input with a closed record in the result and, in
\* the open sprint, two attached microversions of which one carries tasks,
\* while the open microversion has received a task after them.
C26_Witness ==
  /\ pc = "parse" /\ i = Len(lines)
  /\ sprints # <<>>
  /\ Truthy(current_sprint) /\ Truthy(current_microversion)
  /\ Len(current_sprint[1].microversions) >= 2
  /\ \E k \in DOMAIN current_sprint[1].microversions :
       current_sprint[1].microversions[k].tasks # <<>>
  /\ current_microversion[1].tasks # <<>>

(***************************************************************************)
(* generate_html_report applied to the result of a parse: the renderer as  *)
(* a function of its argument, with results the parser yields for          *)
(* microversions of many tasks.                                            *)
(***************************************************************************)
\* The number of tasks of the longest microversion rendered.
ManyTasks == 2001

\* What parse_markdown returns for ProgressDocument(completed, total).
ProgressModel(completed, total) ==
  LET checked == NewTask(LineMatches(LineTaskX).task[1])
      unchecked == NewTask(LineMatches(LineTaskOpen).task[1])
      first == NewMicroversion(LineMatches(LineMicroversion).microversion[1])
      second == AppendTask(AppendTask(first, checked), unchecked)
      third == [first EXCEPT !.tasks = Repeat(checked, completed)
                                         \o Repeat(unchecked, total - completed)]
  IN  <<NewSprint(Strip(LineMatches(LineEpic).epic[1][1])),
        [NewSprint(Strip(LineMatches(LineSprint).sprint[1][1]))
           EXCEPT !.microversions = <<first, second, third>>]>>

\* (completed, total) of the last microversion: every case of a short
\* microversion, and a long one with at most two tasks open.
ProgressCases ==
  UNION {{<<completed, total>> : completed \in 0..total} :
           total \in 0..MaxTasks}
    \cup {<<completed, ManyTasks>> :
            completed \in (ManyTasks - 2)..ManyTasks}

\* The program at the call generate_html_report(sprints_data, ...) of line
\* 176, after it read and parsed a ProgressDocument.
InitRender ==
  \E case \in ProgressCases :
    LET document == ProgressDocument(case[1], case[2])
        model == ProgressModel(case[1], case[2])
    IN  /\ input_file = Ref(document)
        /\ output_file = Ref(OldReport)
        /\ stdout = <<>>
        /\ pc = "render"
        /\ lines = document
        /\ i = Len(document)
        /\ sprints = model
        /\ current_sprint = Ref(Last(model))
        /\ current_microversion = Ref(Last(Last(model).microversions))
        /\ html_content = <<>>
        /\ now = 0

\* The steps of generate_html_report.
NextRender ==
  \/ Render
  \/ WriteOutput
  \/ OpenFails
  \/ PrintGenerated

SpecRender == InitRender /\ [][NextRender]_vars

\* The Sprint records whose section shows a summary.
SprintsWithTasks ==
  SelectSeq(sprints, LAMBDA sprint : SprintTaskPositions(sprint) # {})

\* The progress texts of the report: those of the microversions, then those
\* of the sprint summaries.
ShownProgressTexts ==
  LET bars == ElementsOfClass("progress-bar")
      summaries == ElementsOfClass("sprint-summary")
  IN  [m \in 1..Len(bars) |-> html_content[bars[m]].text]
        \o [m \in 1..Len(summaries) |-> html_content[summaries[m]].text]

\* The numbers of Complete tasks and of tasks behind each progress text.
ProgressCounts ==
  LET mvs == FlatMicroversions(sprints)
      withTasks == SprintsWithTasks
  IN  [m \in 1..Len(mvs) |->
         [completed |-> Cardinality({k \in 1..Len(mvs[m].tasks) :
                                       mvs[m].tasks[k].status = "Complete"}),
          total |-> Len(mvs[m].tasks)]]
        \o [m \in 1..Len(withTasks) |->
              [completed |->
                 Cardinality(SprintCompletedPositions(withTasks[m])),
               total |-> Cardinality(SprintTaskPositions(withTasks[m]))]]

\* C27 as stated: for every Microversion and every Sprint rendered the shown
\* numbers are those of its tasks with 0 <= completed <= total, the shown
\* percentage lies between 0.0 and 100.0, and it is 100.0 exactly when
\* total > 0 and every task is Complete.
C27_FullExactlyWhenComplete ==
  Rendered =>
    LET shown == ShownProgressTexts
        counts == ProgressCounts
    IN  /\ Len(shown) = Len(counts)
        /\ \A m \in 1..Len(shown) :
             LET percent == ShownPercentText(shown[m])
             IN  /\ NatOf(ShownCompletedText(shown[m])) = counts[m].completed
                 /\ NatOf(ShownTotalText(shown[m])) = counts[m].total
                 /\ counts[m].completed <= counts[m].total
                 /\ OneDecimalPlace(percent)
                 /\ ShownTenths(percent) <= 1000
                 /\ ShownTenths(percent) = 1000
                      <=> (counts[m].total > 0
                             /\ counts[m].completed = counts[m].total)

\* C27, amended: for every Microversion and every Sprint rendered the shown
\* numbers are those of its tasks with 0 <= completed <= total, the shown
\* percentage lies between 0.0 and 100.0, it is 100.0 whenever total > 0 and
\* every task is Complete, and it is 100.0 exactly when total > 0 and at most
\* one task in 2000 is not Complete (the percentage is rounded to one decimal
\* place, so from 99.95 on it shows as 100.0).
C27_ProgressRange ==
  Rendered =>
    LET shown == ShownProgressTexts
        counts == ProgressCounts
    IN  /\ Len(shown) = Len(counts)
        /\ \A m \in 1..Len(shown) :
             LET percent == ShownPercentText(shown[m])
                 completed == NatOf(ShownCompletedText(shown[m]))
                 total == NatOf(ShownTotalText(shown[m]))
             IN  /\ IsNumeral(ShownCompletedText(shown[m]))
                 /\ IsNumeral(ShownTotalText(shown[m]))
                 /\ completed = counts[m].completed
                 /\ total = counts[m].total
                 /\ completed <= total
                 /\ OneDecimalPlace(percent)
                 /\ ShownTenths(percent) <= 1000
                 /\ (total > 0 /\ completed = total)
                      => ShownTenths(percent) = 1000
                 /\ ShownTenths(percent) = 1000
                      <=> (total > 0 /\ 2000 * completed >= 1999 * total)

\* A report that shows 100.0% for a microversion with an open task, and
\* another progress below 100.0% with Complete and open tasks.
C27_Witness ==
  /\ Rendered
  /\ LET shown == ShownProgressTexts
         counts == ProgressCounts
     IN  /\ \E m \in 1..Len(shown) :
              /\ ShownTenths(ShownPercentText(shown[m])) = 1000
              /\ counts[m].completed < counts[m].total
         /\ \E m \in 1..Len(shown) :
              /\ ShownTenths(ShownPercentText(shown[m])) < 1000
              /\ 0 < counts[m].completed
              /\ counts[m].completed < counts[m].total

\* The program with the errors an environment can raise while the report is
\* assembled.
NextFaults == Next \/ RenderFails

SpecFaults == Init /\ [][NextFaults]_vars

\* C28: generate_html_report has assembled the complete HTML text (from the
\* stylesheet link to the footer, with the closing of every section) before
\* it touches the output file, and it writes the file in one step, once in a
\* run; so an error raised while the text is assembled leaves the existing
\* file as it was, and after a successful run the file holds the new report
\* and nothing of what it held before.
C28_AssembleThenWrite ==
  /\ [][ pc = "render" => output_file' = output_file ]_vars
  /\ [][ output_file' # output_file
           => /\ pc = "write" /\ pc' = "print"
              /\ output_file = Ref(OldReport)
              /\ output_file' = Ref(html_content)
              /\ Head(html_content).tag = "link"
              /\ Last(html_content).tag = "footer"
              /\ Len(ElementsOfTag("section")) = Len(sprints)
              /\ Len(ElementsOfTag("/section")) = Len(sprints) ]_vars
  /\ [](pc = "raised" => output_file = Ref(OldReport))
  /\ []((pc = "done" /\ Truthy(input_file))
          => /\ output_file = Ref(html_content)
             /\ \A n \in 1..Len(output_file[1]) :
                  output_file[1][n].text # OldReport[2].text)

\* A run over a document with tasks has ended in an error raised while the
\* report was assembled.
C28_Witness ==
  /\ pc = "raised"
  /\ html_content = <<>>
  /\ \E m \in 1..Len(sprints) : SprintTaskPositions(sprints[m]) # {}
  /\ output_file = Ref(OldReport)

\* C29: while the document read has no Epic and no Sprint header line (the
\* empty document too), whatever Microversion and Task lines it has, nothing
\* is opened and the result stays empty through the parse; the run then goes
\* on as any other, from the parse to the rendering to the write step, the
\* report it assembles has no section, microversion or task element between
\* its header part and its footer, and a run that has ended with its message
\* has written that report to the output file.
C29_NoHeaderEmptyReport ==
  /\ []((pc \notin {"main", "done"} /\ HeaderLines = {})
          => /\ sprints = <<>>
             /\ ~Truthy(current_sprint)
             /\ ~Truthy(current_microversion))
  /\ [][ (pc = "parse" /\ i = Len(lines) /\ HeaderLines = {})
           => pc' = "render" ]_vars
  /\ [][ (pc = "render" /\ HeaderLines = {}) => pc' = "write" ]_vars
  /\ []((Rendered /\ HeaderLines = {})
          => /\ Len(html_content) = 4
             /\ [n \in 1..4 |-> html_content[n].tag] =
                  <<"link", "header", "p", "footer">>
             /\ pc \in {"print", "done"} => output_file = Ref(html_content)
             /\ pc = "done" => stdout = <<"Report generated">>)

\* A run over a document of microversion and task lines without a header has
\* written its report and printed its message.
C29_Witness ==
  /\ pc = "done" /\ Truthy(input_file)
  /\ HeaderLines = {}
  /\ \E k \in 1..Len(lines) : IsMicroversionLine(k)
  /\ \E k \in 1..Len(lines) : IsTaskLine(k)
  /\ output_file = Ref(html_content)
  /\ output_file # Ref(OldReport)

====
